---- MODULE Spec2Model ----
(***************************************************************************)
(* Model of fullhouse::Deque<T, CAPACITY> (src/src/lib.rs): a fixed-       *)
(* capacity double-ended queue over a circular array of MaybeUninit<T>.    *)
(*                                                                         *)
(* Program state: CAPACITY (the const generic, fixed at construction),     *)
(* start, end, len and data.  A slot of data holds the bits last written   *)
(* to it (Uninit when never written); whether those bits are an            *)
(* initialized, not-moved-out T is not stored by the program, so it is     *)
(* tracked here by the ghost set live.  The other ghost variables record   *)
(* what callers observe: ref (an unbounded reference deque driven by the   *)
(* same calls), returned / destroyed (the values handed out by pops and    *)
(* the values whose destructor the deque ran), log (one entry per mutating *)
(* call, with the state it left) and ret (the result of the last call).    *)
(* pc is the call in progress when a call is taken step by step (SpecSteps) *)
(* and Idle between calls; Spec and SpecAccess take every call in one step. *)
(***************************************************************************)
EXTENDS Integers, Sequences, FiniteSets

VARIABLES CAPACITY, start, end, len, data, live,
          status, ref, returned, destroyed, log, ret, pc

vars == <<CAPACITY, start, end, len, data, live,
          status, ref, returned, destroyed, log, ret, pc>>

(* Bounds of the model. *)
MaxCapacity == 3
MaxOps == 5

(* Every T moved into a push is a distinct object: the value of the n-th  *)
(* mutating call is n.                                                     *)
Val == 1..(MaxOps + 1)

(* The content of a MaybeUninit slot that was never written. *)
Uninit == 0

Slots == 0..(CAPACITY - 1)

(* Option<T> and Result<(), T>. *)
None == [tag |-> "None", val |-> 0]
Some(v) == [tag |-> "Some", val |-> v]
Ok == [tag |-> "Ok", val |-> 0]
Err(v) == [tag |-> "Err", val |-> v]
Unit == [tag |-> "Unit", val |-> 0]

(* The call did not return: it panicked (index out of bounds, remainder  *)
(* by zero, or expect() on None).                                        *)
Panicked == [tag |-> "Panic", val |-> 0]

(* The panic of expect("Out of bounds access") in Index / IndexMut. *)
IndexOutOfBounds == [tag |-> "Panic", val |-> 1]

(* The &T or &mut T an indexing operator returns, by the value it     *)
(* refers to.                                                         *)
Ref(v) == [tag |-> "Ref", val |-> v]

Range(s) == {s[k] : k \in 1..Len(s)}

(* ------------------------------------------------------------------ *)
(* Metadata                                                            *)
(* ------------------------------------------------------------------ *)
capacity == CAPACITY

is_empty == len = 0

(* is_full comparing with > where == is meant. *)
is_full_off_by_one == len > CAPACITY

is_full == len = CAPACITY

(* (i + 1) % CAPACITY and (i + CAPACITY - 1) % CAPACITY, the two steps   *)
(* of the circular index.                                                *)
(* The step forward without the remainder. *)
wrap_inc_no_wrap(i) == i + 1

wrap_inc(i) == (i + 1) % CAPACITY

(* The step back computed as a step forward. *)
wrap_dec_forward(i) == (i + 1) % CAPACITY

wrap_dec(i) == (i + CAPACITY - 1) % CAPACITY

(* ------------------------------------------------------------------ *)
(* Slot access                                                         *)
(* ------------------------------------------------------------------ *)
(* MaybeUninit::write: overwrites the bits, runs no destructor. *)
write(idx, value) == [i \in DOMAIN data |-> IF i = idx THEN value ELSE data[i]]

(* assume_init_read / assume_init_ref / assume_init_drop of slot idx    *)
(* given the set lv of initialized slots: the value in the slot; on a   *)
(* slot that holds no initialized value the behaviour is undefined and  *)
(* any bits may be observed.                                            *)
assume_init(idx, lv) == IF idx \in lv THEN {data[idx]} ELSE Val \cup {Uninit}

(* ------------------------------------------------------------------ *)
(* Index arithmetic                                                    *)
(* ------------------------------------------------------------------ *)
(* data_index with the wrap forgotten: start + offset, whatever it is. *)
data_index_nowrap(offset) ==
    IF offset < len THEN Some(start + offset) ELSE None

(* data_index accepting offset == len. *)
data_index_le(offset) ==
    IF offset <= len
    THEN LET pre_wrap_size == CAPACITY - start
         IN IF offset < pre_wrap_size
            THEN Some(start + offset)
            ELSE Some(offset - pre_wrap_size)
    ELSE None

(* data_index measuring the part before the wrap from end, not start. *)
data_index_from_end(offset) ==
    IF offset < len
    THEN LET pre_wrap_size == CAPACITY - end
         IN IF offset < pre_wrap_size
            THEN Some(start + offset)
            ELSE Some(offset - pre_wrap_size)
    ELSE None

data_index(offset) ==
    IF offset < len
    THEN LET pre_wrap_size == CAPACITY - start
         IN IF offset < pre_wrap_size
            THEN Some(start + offset)
            ELSE Some(offset - pre_wrap_size)
    ELSE None

SeqRange(a, b) == [k \in 1..(IF b > a THEN b - a ELSE 0) |-> a + k - 1]

(* indexes() without the second range of a wrapped region. *)
indexes_first_range_only ==
    IF is_empty THEN SeqRange(0, 0) \o SeqRange(0, 0)
    ELSE IF start < end THEN SeqRange(start, end) \o SeqRange(0, 0)
    ELSE SeqRange(start, CAPACITY) \o SeqRange(0, 0)

(* indexes() telling a wrapped region by start <= end: a full deque    *)
(* with start == end then yields the empty range start..end.           *)
indexes_le ==
    IF is_empty THEN SeqRange(0, 0) \o SeqRange(0, 0)
    ELSE IF start <= end THEN SeqRange(start, end) \o SeqRange(0, 0)
    ELSE SeqRange(start, CAPACITY) \o SeqRange(0, end)

(* indexes() chaining the two ranges of a wrapped region the wrong way *)
(* round.                                                              *)
indexes_second_first ==
    IF is_empty THEN SeqRange(0, 0) \o SeqRange(0, 0)
    ELSE IF start < end THEN SeqRange(start, end) \o SeqRange(0, 0)
    ELSE SeqRange(0, end) \o SeqRange(start, CAPACITY)

indexes ==
    IF is_empty THEN SeqRange(0, 0) \o SeqRange(0, 0)
    ELSE IF start < end THEN SeqRange(start, end) \o SeqRange(0, 0)
    ELSE SeqRange(start, CAPACITY) \o SeqRange(0, end)

(* ------------------------------------------------------------------ *)
(* Accessors: the set of results a call can produce in this state.     *)
(* ------------------------------------------------------------------ *)
get(at) ==
    LET di == data_index(at)
    IN IF di.tag = "None" THEN {None}
       ELSE IF di.val \notin Slots THEN {Panicked}
       ELSE {Some(v) : v \in assume_init(di.val, live)}

front == get(0)

(* usize arithmetic: len().wrapping_sub(1), and the len -= 1 of the    *)
(* pops as a release build computes it.                                *)
UsizeBits == 8
UsizeModulus == 2 ^ UsizeBits
wrapping_sub(a, b) == (a - b) % UsizeModulus

(* back looking up offset len, one past the last element. *)
back_looks_up_len == get(len)

back == get(wrapping_sub(len, 1))

(* get_mut, front_mut, back_mut: the same lookups, for a &mut T.  What *)
(* the caller then does to the T behind the reference is not code of   *)
(* the deque.                                                          *)
get_mut(at) ==
    LET di == data_index(at)
    IN IF di.tag = "None" THEN {None}
       ELSE IF di.val \notin Slots THEN {Panicked}
       ELSE {Some(v) : v \in assume_init(di.val, live)}

front_mut == get_mut(0)

back_mut == get_mut(wrapping_sub(len, 1))

(* Option::expect: the value of Some, a panic on None. *)
expect(results) ==
    {IF r.tag = "None" THEN IndexOutOfBounds
     ELSE IF r.tag = "Some" THEN Ref(r.val) ELSE r : r \in results}

(* Index::index and IndexMut::index_mut: deque[i]. *)
index(i) == expect(get(i))

index_mut(i) == expect(get_mut(i))

(* ------------------------------------------------------------------ *)
(* Ghost bookkeeping shared by the mutating calls                      *)
(* ------------------------------------------------------------------ *)
(* The unbounded reference deque after the same call; a push that the  *)
(* bounded deque rejected is skipped.                                  *)
RefAfter(op, arg, res) ==
    CASE op = "push_front" -> IF res.tag = "Ok" THEN <<arg>> \o ref ELSE ref
      [] op = "push_back" -> IF res.tag = "Ok" THEN Append(ref, arg) ELSE ref
      [] op = "pop_front" -> IF ref = <<>> THEN ref ELSE Tail(ref)
      [] op = "pop_back" -> IF ref = <<>> THEN ref ELSE SubSeq(ref, 1, Len(ref) - 1)
      [] OTHER -> <<>>

(* No call is in progress.  A call in progress is recorded with its    *)
(* name and argument, the steps it has still to take (todo), the slots *)
(* it has still to access (idxs), the slots clear() set out to drop    *)
(* (all) and the values it has read or dropped so far (vals).          *)
Idle == [op |-> "idle", arg |-> 0, todo |-> <<>>, idxs |-> <<>>,
         all |-> <<>>, vals |-> <<>>]

(* One mutating call returning res and leaving the fields s2, e2, l2, d2; *)
(* lv2 are the initialized slots afterwards, idxs the slots whose        *)
(* destructor ran and drops the values destroyed.                        *)
Commit(op, arg, res, s2, e2, l2, d2, lv2, idxs, drops) ==
    /\ start' = s2
    /\ end' = e2
    /\ len' = l2
    /\ data' = d2
    /\ live' = lv2
    /\ ref' = RefAfter(op, arg, res)
    /\ returned' = IF op \in {"pop_front", "pop_back"} /\ res.tag = "Some"
                   THEN Append(returned, res.val) ELSE returned
    /\ destroyed' = destroyed \o drops
    /\ ret' = [op |-> op, arg |-> arg, res |-> res]
    /\ log' = Append(log, [op |-> op, arg |-> arg, res |-> res,
                           start |-> s2, end |-> e2, len |-> l2,
                           data |-> d2, live |-> lv2, ref |-> ref',
                           idxs |-> idxs, drops |-> drops])
    /\ status' = IF op = "drop" THEN "dropped"
                  ELSE IF res.tag = "Panic" THEN "panicked" ELSE status
    /\ pc' = Idle
    /\ UNCHANGED CAPACITY

(* A panic raised before the call changed anything. *)
Panic(op, arg) ==
    Commit(op, arg, Panicked, start, end, len, data, live, <<>>, <<>>)

CanCall == status = "alive" /\ pc = Idle /\ Len(log) < MaxOps

NextValue == Len(log) + 1

(* ------------------------------------------------------------------ *)
(* Construction                                                        *)
(* ------------------------------------------------------------------ *)
new ==
    /\ start = 0
    /\ end = 0
    /\ len = 0
    /\ data = [i \in Slots |-> Uninit]

Init ==
    /\ CAPACITY \in 0..MaxCapacity
    /\ new
    /\ live = {}
    /\ status = "alive"
    /\ ref = <<>>
    /\ returned = <<>>
    /\ destroyed = <<>>
    /\ log = <<>>
    /\ ret = [op |-> "new", arg |-> 0, res |-> Unit]
    /\ pc = Idle

(* ------------------------------------------------------------------ *)
(* Insertion                                                           *)
(* ------------------------------------------------------------------ *)
(* push_front without self.len += 1. *)
push_front_keeps_len(value) ==
    /\ CanCall
    /\ IF is_full
       THEN Commit("push_front", value, Err(value),
                   start, end, len, data, live, <<>>, <<>>)
       ELSE IF CAPACITY = 0 THEN Panic("push_front", value)
       ELSE LET new_start == wrap_dec(start)
            IN Commit("push_front", value, Ok,
                      new_start, end, len, write(new_start, value),
                      live \cup {new_start}, <<>>, <<>>)

(* push_front writing data[self.start], the slot of the front element. *)
push_front_writes_old_start(value) ==
    /\ CanCall
    /\ IF is_full
       THEN Commit("push_front", value, Err(value),
                   start, end, len, data, live, <<>>, <<>>)
       ELSE IF CAPACITY = 0 THEN Panic("push_front", value)
       ELSE Commit("push_front", value, Ok,
                   wrap_dec(start), end, len + 1, write(start, value),
                   live \cup {start}, <<>>, <<>>)

push_front(value) ==
    /\ CanCall
    /\ IF is_full
       THEN Commit("push_front", value, Err(value),
                   start, end, len, data, live, <<>>, <<>>)
       ELSE IF CAPACITY = 0 THEN Panic("push_front", value)
       ELSE LET new_start == wrap_dec(start)
            IN IF new_start \notin Slots THEN Panic("push_front", value)
               ELSE Commit("push_front", value, Ok,
                           new_start, end, len + 1, write(new_start, value),
                           live \cup {new_start}, <<>>, <<>>)

(* push_back writing the slot after end, the one end moves to. *)
push_back_writes_new_end(value) ==
    /\ CanCall
    /\ IF is_full
       THEN Commit("push_back", value, Err(value),
                   start, end, len, data, live, <<>>, <<>>)
       ELSE IF CAPACITY = 0 THEN Panic("push_back", value)
       ELSE LET new_end == wrap_inc(end)
            IN Commit("push_back", value, Ok,
                      start, new_end, len + 1, write(new_end, value),
                      live \cup {new_end}, <<>>, <<>>)

push_back(value) ==
    /\ CanCall
    /\ IF is_full
       THEN Commit("push_back", value, Err(value),
                   start, end, len, data, live, <<>>, <<>>)
       ELSE IF end \notin Slots THEN Panic("push_back", value)
       ELSE Commit("push_back", value, Ok,
                   start, wrap_inc(end), len + 1, write(end, value),
                   live \cup {end}, <<>>, <<>>)

(* ------------------------------------------------------------------ *)
(* Removal                                                             *)
(* ------------------------------------------------------------------ *)
(* pop_front reading data[self.start] after start has been advanced. *)
pop_front_reads_new_start ==
    /\ CanCall
    /\ IF is_empty
       THEN Commit("pop_front", 0, None,
                   start, end, len, data, live, <<>>, <<>>)
       ELSE IF CAPACITY = 0 THEN Panic("pop_front", 0)
       ELSE LET new_start == wrap_inc(start)
            IN \E value \in assume_init(new_start, live) :
                  Commit("pop_front", 0, Some(value),
                         new_start, end, wrapping_sub(len, 1), data,
                         live \ {new_start}, <<>>, <<>>)

pop_front ==
    /\ CanCall
    /\ IF is_empty
       THEN Commit("pop_front", 0, None,
                   start, end, len, data, live, <<>>, <<>>)
       ELSE IF CAPACITY = 0 THEN Panic("pop_front", 0)
       ELSE LET old_start == start
                new_start == wrap_inc(old_start)
                new_len == wrapping_sub(len, 1)
            IN IF old_start \notin Slots
               THEN Commit("pop_front", 0, Panicked,
                           new_start, end, new_len, data, live, <<>>, <<>>)
               ELSE \E value \in assume_init(old_start, live) :
                       Commit("pop_front", 0, Some(value),
                              new_start, end, new_len, data,
                              live \ {old_start}, <<>>, <<>>)

(* pop_back without the is_empty check. *)
pop_back_unchecked ==
    /\ CanCall
    /\ IF CAPACITY = 0 THEN Panic("pop_back", 0)
       ELSE LET new_end == wrap_dec(end)
            IN \E value \in assume_init(new_end, live) :
                  Commit("pop_back", 0, Some(value),
                         start, new_end, wrapping_sub(len, 1), data,
                         live \ {new_end}, <<>>, <<>>)

(* pop_back reading data[self.end] before end has been moved back. *)
pop_back_reads_old_end ==
    /\ CanCall
    /\ IF is_empty
       THEN Commit("pop_back", 0, None,
                   start, end, len, data, live, <<>>, <<>>)
       ELSE IF CAPACITY = 0 THEN Panic("pop_back", 0)
       ELSE \E value \in assume_init(end, live) :
               Commit("pop_back", 0, Some(value),
                      start, wrap_dec(end), wrapping_sub(len, 1), data,
                      live \ {end}, <<>>, <<>>)

pop_back ==
    /\ CanCall
    /\ IF is_empty
       THEN Commit("pop_back", 0, None,
                   start, end, len, data, live, <<>>, <<>>)
       ELSE IF CAPACITY = 0 THEN Panic("pop_back", 0)
       ELSE LET new_end == wrap_dec(end)
                new_len == wrapping_sub(len, 1)
            IN IF new_end \notin Slots
               THEN Commit("pop_back", 0, Panicked,
                           start, new_end, new_len, data, live, <<>>, <<>>)
               ELSE \E value \in assume_init(new_end, live) :
                       Commit("pop_back", 0, Some(value),
                              start, new_end, new_len, data,
                              live \ {new_end}, <<>>, <<>>)

(* ------------------------------------------------------------------ *)
(* Bulk clearing and destruction                                       *)
(* ------------------------------------------------------------------ *)
(* The values seen by assume_init_drop on the slots idxs, in order;    *)
(* each drop leaves its slot uninitialized.                            *)
RECURSIVE DropOutcomes(_, _)
DropOutcomes(idxs, lv) ==
    IF idxs = <<>> THEN {<<>>}
    ELSE {<<v>> \o rest : v \in assume_init(Head(idxs), lv),
                          rest \in DropOutcomes(Tail(idxs), lv \ {Head(idxs)})}

(* The indexes the loop of clear() gets through: all of them, unless   *)
(* one is outside the array, where self.data[idx] panics.              *)
InBounds(idxs) ==
    LET bad == {k \in 1..Len(idxs) : idxs[k] \notin Slots}
    IN IF bad = {} THEN idxs
       ELSE SubSeq(idxs, 1, (CHOOSE k \in bad : \A j \in bad : k <= j) - 1)

(* The body of clear() without self.len = 0. *)
ClearAs_keeps_len(op) ==
    LET all == indexes
        idxs == InBounds(all)
    IN \E drops \in DropOutcomes(idxs, live) :
          Commit(op, 0, IF idxs = all THEN Unit ELSE Panicked,
                 0, 0, len, data, live \ Range(idxs), idxs, drops)

(* The body of clear(), called as op. *)
ClearAs(op) ==
    LET all == indexes
        idxs == InBounds(all)
    IN \E drops \in DropOutcomes(idxs, live) :
          Commit(op, 0, IF idxs = all THEN Unit ELSE Panicked,
                 0, 0, 0, data, live \ Range(idxs), idxs, drops)

clear ==
    /\ CanCall
    /\ ClearAs("clear")

(* Drop for Deque: clear(), after which the deque is gone.  It also    *)
(* runs when a panic unwinds through the owner of the deque.           *)
drop ==
    /\ status # "dropped"
    /\ pc = Idle
    /\ ClearAs("drop")

(* ------------------------------------------------------------------ *)
(* Accessor calls                                                      *)
(* ------------------------------------------------------------------ *)
Observe(op, arg, results) ==
    /\ status = "alive"
    /\ pc = Idle
    /\ \E r \in results :
          /\ ret' = [op |-> op, arg |-> arg, res |-> r]
          /\ status' = IF r.tag = "Panic" THEN "panicked" ELSE status
    /\ UNCHANGED <<CAPACITY, start, end, len, data, live,
                   ref, returned, destroyed, log, pc>>

get_call(at) == Observe("get", at, get(at))

front_call == Observe("front", 0, front)

(* back and back_mut are recorded with the offset they look up. *)
back_call == Observe("back", wrapping_sub(len, 1), back)

get_mut_call(at) == Observe("get_mut", at, get_mut(at))

front_mut_call == Observe("front_mut", 0, front_mut)

back_mut_call == Observe("back_mut", wrapping_sub(len, 1), back_mut)

index_call(i) == Observe("index", i, index(i))

index_mut_call(i) == Observe("index_mut", i, index_mut(i))

(* ------------------------------------------------------------------ *)
(* Specification                                                       *)
(* ------------------------------------------------------------------ *)
Next ==
    \/ push_front(NextValue)
    \/ push_back(NextValue)
    \/ pop_front
    \/ pop_back
    \/ clear
    \/ drop
    \/ \E at \in 0..CAPACITY : get_call(at)
    \/ front_call
    \/ back_call

Spec == Init /\ [][Next]_vars

(* The same calls with the &mut accessors and the indexing operators   *)
(* in place of get and front.                                          *)
NextAccess ==
    \/ push_front(NextValue)
    \/ push_back(NextValue)
    \/ pop_front
    \/ pop_back
    \/ clear
    \/ drop
    \/ \E i \in 0..CAPACITY : get_mut_call(i)
    \/ front_mut_call
    \/ back_call
    \/ back_mut_call
    \/ \E i \in 0..CAPACITY : index_call(i)
    \/ \E i \in 0..CAPACITY : index_mut_call(i)

SpecAccess == Init /\ [][NextAccess]_vars

(* ------------------------------------------------------------------ *)
(* The calls taken step by step                                        *)
(* ------------------------------------------------------------------ *)
(* The statements of a call after its check, in program order: a slot  *)
(* access ("write", "read", "drop") or a bookkeeping update ("extend", *)
(* "shrink", "reset").                                                 *)
push_front_order == <<"write", "extend">>

push_back_order == <<"write", "extend">>

(* pop_front moving the value out before it shrinks the region. *)
pop_front_read_first == <<"read", "shrink">>

pop_front_order == <<"shrink", "read">>

pop_back_order == <<"shrink", "read">>

(* clear() resetting the region after its loop has dropped n values. *)
clear_reset_last(n) == [k \in 1..n |-> "drop"] \o <<"reset">>

clear_order(n) == <<"reset">> \o [k \in 1..n |-> "drop"]

IsPushing == pc.op \in {"push_front", "push_back"}

IsPopping == pc.op \in {"pop_front", "pop_back"}

IsClearing == pc.op \in {"clear", "drop"}

(* The call enters its else branch (or its body) with its locals. *)
Begin(op, arg, todo, idxs) ==
    /\ pc' = [op |-> op, arg |-> arg, todo |-> todo, idxs |-> idxs,
              all |-> idxs, vals |-> <<>>]
    /\ UNCHANGED <<CAPACITY, start, end, len, data, live,
                   status, ref, returned, destroyed, log, ret>>

(* The next statement of the call in progress is s. *)
Stepping(s) == pc.todo # <<>> /\ Head(pc.todo) = s

(* What the call in progress returns once it has nothing left to do. *)
Result(pc2) ==
    IF pc2.op \in {"push_front", "push_back"} THEN Ok
    ELSE IF pc2.op \in {"pop_front", "pop_back"} THEN Some(pc2.vals[1])
    ELSE Unit

(* The call in progress leaves the deque as given, having res to       *)
(* return: it goes on to its next statement, or returns.               *)
Leave(res, s2, e2, l2, d2, lv2, pc2) ==
    IF pc2.todo = <<>>
    THEN Commit(pc.op, pc.arg, res, s2, e2, l2, d2, lv2,
                IF IsClearing THEN SubSeq(pc2.all, 1, Len(pc2.vals)) ELSE <<>>,
                IF IsClearing THEN pc2.vals ELSE <<>>)
    ELSE /\ start' = s2 /\ end' = e2 /\ len' = l2
         /\ data' = d2 /\ live' = lv2
         /\ pc' = pc2
         /\ UNCHANGED <<CAPACITY, status, ref, returned, destroyed, log, ret>>

(* A panic in the middle of the call in progress. *)
Unwind(lv2, vals) ==
    Leave(Panicked, start, end, len, data, lv2,
          [pc EXCEPT !.todo = <<>>, !.vals = vals])

push_front_begin(value) ==
    /\ CanCall
    /\ IF is_full
       THEN Commit("push_front", value, Err(value),
                   start, end, len, data, live, <<>>, <<>>)
       ELSE IF CAPACITY = 0 THEN Panic("push_front", value)
       ELSE Begin("push_front", value, push_front_order, <<wrap_dec(start)>>)

push_back_begin(value) ==
    /\ CanCall
    /\ IF is_full
       THEN Commit("push_back", value, Err(value),
                   start, end, len, data, live, <<>>, <<>>)
       ELSE Begin("push_back", value, push_back_order, <<>>)

pop_front_begin ==
    /\ CanCall
    /\ IF is_empty
       THEN Commit("pop_front", 0, None,
                   start, end, len, data, live, <<>>, <<>>)
       ELSE Begin("pop_front", 0, pop_front_order, <<start>>)

pop_back_begin ==
    /\ CanCall
    /\ IF is_empty
       THEN Commit("pop_back", 0, None,
                   start, end, len, data, live, <<>>, <<>>)
       ELSE Begin("pop_back", 0, pop_back_order, <<>>)

clear_begin ==
    /\ CanCall
    /\ Begin("clear", 0, clear_order(Len(indexes)), indexes)

drop_begin ==
    /\ status # "dropped"
    /\ pc = Idle
    /\ Begin("drop", 0, clear_order(Len(indexes)), indexes)

(* self.data[new_start].write(value) and self.data[self.end].write(value). *)
push_write ==
    /\ Stepping("write")
    /\ LET idx == IF pc.op = "push_front" THEN pc.idxs[1] ELSE end
           pc2 == [pc EXCEPT !.todo = Tail(@)]
       IN IF idx \notin Slots THEN Unwind(live, <<>>)
          ELSE Leave(Result(pc2), start, end, len, write(idx, pc.arg),
                     live \cup {idx}, pc2)

(* self.start = new_start, or self.end = (self.end + 1) % CAPACITY;    *)
(* then self.len += 1.                                                 *)
push_extend ==
    /\ Stepping("extend")
    /\ LET pc2 == [pc EXCEPT !.todo = Tail(@)]
       IN IF pc.op = "push_front"
          THEN Leave(Result(pc2), pc.idxs[1], end, len + 1, data, live, pc2)
          ELSE IF CAPACITY = 0 THEN Unwind(live, <<>>)
          ELSE Leave(Result(pc2), start, wrap_inc(end), len + 1, data, live, pc2)

(* self.start = (old_start + 1) % CAPACITY, or                         *)
(* self.end = (self.end + CAPACITY - 1) % CAPACITY; then self.len -= 1. *)
pop_shrink ==
    /\ Stepping("shrink")
    /\ LET pc2 == [pc EXCEPT !.todo = Tail(@)]
       IN IF CAPACITY = 0 THEN Unwind(live, pc.vals)
          ELSE IF pc.op = "pop_front"
          THEN Leave(Result(pc2), wrap_inc(pc.idxs[1]), end,
                     wrapping_sub(len, 1), data, live, pc2)
          ELSE Leave(Result(pc2), start, wrap_dec(end),
                     wrapping_sub(len, 1), data, live, pc2)

(* self.data[old_start].assume_init_read(), or                         *)
(* self.data[self.end].assume_init_read().                             *)
pop_read ==
    /\ Stepping("read")
    /\ LET idx == IF pc.op = "pop_front" THEN pc.idxs[1] ELSE end
       IN IF idx \notin Slots THEN Unwind(live, <<>>)
          ELSE \E value \in assume_init(idx, live) :
                  LET pc2 == [pc EXCEPT !.todo = Tail(@), !.vals = <<value>>]
                  IN Leave(Result(pc2), start, end, len, data,
                           live \ {idx}, pc2)

(* self.start = 0; self.end = 0; self.len = 0. *)
clear_reset ==
    /\ Stepping("reset")
    /\ LET pc2 == [pc EXCEPT !.todo = Tail(@)]
       IN Leave(Result(pc2), 0, 0, 0, data, live, pc2)

(* One iteration of the loop: self.data[idx].assume_init_drop(), the   *)
(* destructor of the value returning.                                  *)
clear_drop ==
    /\ Stepping("drop")
    /\ LET idx == Head(pc.idxs)
       IN IF idx \notin Slots THEN Unwind(live, pc.vals)
          ELSE \E value \in assume_init(idx, live) :
                  LET pc2 == [pc EXCEPT !.todo = Tail(@), !.idxs = Tail(@),
                                        !.vals = Append(@, value)]
                  IN Leave(Result(pc2), start, end, len, data,
                           live \ {idx}, pc2)

(* One iteration of the loop in which the destructor of the value      *)
(* panics: the value is gone, the rest of the loop is not run, and the *)
(* panic unwinds through clear() to the owner of the deque.            *)
destructor_panics ==
    /\ Stepping("drop")
    /\ LET idx == Head(pc.idxs)
       IN /\ idx \in Slots
          /\ \E value \in assume_init(idx, live) :
                Unwind(live \ {idx}, Append(pc.vals, value))

NextSteps ==
    \/ push_front_begin(NextValue)
    \/ push_back_begin(NextValue)
    \/ pop_front_begin
    \/ pop_back_begin
    \/ clear_begin
    \/ drop_begin
    \/ push_write
    \/ push_extend
    \/ pop_shrink
    \/ pop_read
    \/ clear_reset
    \/ clear_drop
    \/ destructor_panics

SpecSteps == Init /\ [][NextSteps]_vars

(* ------------------------------------------------------------------ *)
(* Reading the log                                                     *)
(* ------------------------------------------------------------------ *)
(* The state the deque was in after the first i mutating calls. *)
StateAfter(i) ==
    IF i = 0
    THEN [start |-> 0, end |-> 0, len |-> 0,
          data |-> [k \in Slots |-> Uninit], live |-> {}, ref |-> <<>>]
    ELSE [start |-> log[i].start, end |-> log[i].end, len |-> log[i].len,
          data |-> log[i].data, live |-> log[i].live, ref |-> log[i].ref]

Calls == 1..Len(log)

IsPush(i) == log[i].op \in {"push_front", "push_back"}

IsPop(i) == log[i].op \in {"pop_front", "pop_back"}

(* Calls i0+1 .. i0+k are all op1 and calls i0+k+1 .. i0+k+j are all   *)
(* op2, the first of them made on an empty deque.                      *)
Run(i0, op1, k, op2, j) ==
    /\ i0 + k + j <= Len(log)
    /\ StateAfter(i0).len = 0
    /\ \A m \in 1..k : log[i0 + m].op = op1
    /\ \A m \in 1..j : log[i0 + k + m].op = op2

(* ------------------------------------------------------------------ *)
(* C1  Random access against the reference deque                       *)
(* ------------------------------------------------------------------ *)
(* C1: after any sequence of push_front, push_back, pop_front, pop_back *)
(* and clear calls, len is the length of the unbounded reference deque  *)
(* driven by the same calls (rejected pushes skipped) and get(i), for   *)
(* every i < len, returns exactly the i-th element of the reference     *)
(* deque, front to back, also when the live range wraps.                *)
C1_RandomAccess ==
    /\ len = Len(ref)
    /\ \A i \in 0..(len - 1) : get(i) = {Some(ref[i + 1])}

(* Scenario D of the specification: capacity 3, three push_back, one   *)
(* pop_front, a push_back that wraps into slot 0, then get(2).         *)
C1_Witness ==
    /\ CAPACITY = 3 /\ start = 1 /\ end = 1 /\ len = 3
    /\ ref = <<2, 3, 5>>
    /\ data[0] = 5
    /\ ret = [op |-> "get", arg |-> 2, res |-> Some(5)]

(* ------------------------------------------------------------------ *)
(* C2  FIFO                                                            *)
(* ------------------------------------------------------------------ *)
(* C2: from an empty deque, k <= CAPACITY push_back calls all succeed, *)
(* the pop_front calls that follow return the pushed values in the     *)
(* order they were pushed, and one more pop_front returns None.        *)
C2_Fifo ==
    \A i0 \in 0..Len(log) : \A k \in 0..CAPACITY : \A j \in 0..(k + 1) :
        Run(i0, "push_back", k, "pop_front", j) =>
            /\ \A m \in 1..k : log[i0 + m].res = Ok
            /\ \A m \in 1..j :
                  log[i0 + k + m].res =
                      IF m <= k THEN Some(log[i0 + m].arg) ELSE None

(* Two push_back, two pop_front and a third pop_front on a deque of    *)
(* capacity 2.                                                         *)
C2_Witness ==
    /\ CAPACITY = 2
    /\ Len(log) = 5
    /\ Run(0, "push_back", 2, "pop_front", 3)
    /\ ret.res = None

(* ------------------------------------------------------------------ *)
(* C3  push_front followed by pop_back                                 *)
(* ------------------------------------------------------------------ *)
(* C3 as stated: from an empty deque, k <= CAPACITY push_front calls   *)
(* followed by k pop_back calls return the values in the reverse of    *)
(* the order in which they were pushed.                                *)
C3_ReverseAsStated ==
    \A i0 \in 0..Len(log) : \A k \in 0..CAPACITY :
        Run(i0, "push_front", k, "pop_back", k) =>
            \A m \in 1..k : log[i0 + k + m].res = Some(log[i0 + k + 1 - m].arg)

(* C3 amended: from an empty deque, k <= CAPACITY push_front calls all *)
(* succeed and the pop_back calls that follow return the values in the *)
(* order in which they were pushed (the first pushed is the back).     *)
C3_PushFrontPopBack ==
    \A i0 \in 0..Len(log) : \A k \in 0..CAPACITY : \A j \in 0..k :
        Run(i0, "push_front", k, "pop_back", j) =>
            /\ \A m \in 1..k : log[i0 + m].res = Ok
            /\ \A m \in 1..j : log[i0 + k + m].res = Some(log[i0 + m].arg)

(* Two push_front and two pop_back on a deque of capacity 3. *)
C3_Witness ==
    /\ CAPACITY = 3
    /\ Len(log) = 4
    /\ Run(0, "push_front", 2, "pop_back", 2)
    /\ ret.res = Some(2)

(* ------------------------------------------------------------------ *)
(* C4  Same-end push then pop                                          *)
(* ------------------------------------------------------------------ *)
(* The fields and the initialized values of two states agree. *)
SameDeque(s, t) ==
    /\ s.start = t.start /\ s.end = t.end /\ s.len = t.len
    /\ s.live = t.live
    /\ \A i \in s.live : s.data[i] = t.data[i]
    /\ s.ref = t.ref

(* C4: a successful push_front(v) immediately followed by pop_front    *)
(* returns v, a successful push_back(v) immediately followed by        *)
(* pop_back returns v, and either pair leaves start, end, len and the  *)
(* contents as they were before the push.                              *)
C4_SameEnd ==
    \A i \in Calls :
        /\ i < Len(log)
        /\ log[i].res = Ok
        /\ \/ log[i].op = "push_front" /\ log[i + 1].op = "pop_front"
           \/ log[i].op = "push_back" /\ log[i + 1].op = "pop_back"
        => /\ log[i + 1].res = Some(log[i].arg)
           /\ SameDeque(StateAfter(i + 1), StateAfter(i - 1))

(* Both pairs, each made on a deque that already holds an element. *)
C4_Witness ==
    /\ Len(log) = 5
    /\ log[1].op = "push_back" /\ log[1].res = Ok
    /\ log[2].op = "push_front" /\ log[2].res = Ok
    /\ log[3].op = "pop_front"
    /\ log[4].op = "push_back" /\ log[4].res = Ok
    /\ log[5].op = "pop_back"

(* ------------------------------------------------------------------ *)
(* C5  Pushing into a full deque                                       *)
(* ------------------------------------------------------------------ *)
(* Call i left every field, every slot and the initialized set alone. *)
Untouched(i) ==
    LET s == StateAfter(i - 1)
        t == StateAfter(i)
    IN /\ t.start = s.start /\ t.end = s.end /\ t.len = s.len
       /\ t.data = s.data /\ t.live = s.live

OkPushes(S) == {i \in S : IsPush(i) /\ log[i].res = Ok}

SomePops(S) == {i \in S : IsPop(i) /\ log[i].res.tag = "Some"}

(* C5: after exactly CAPACITY successful pushes (any mix of the two    *)
(* ends) and no other mutating call, is_full holds; and a push_front   *)
(* or push_back made when len = CAPACITY returns Err with the value it *)
(* was given and leaves start, end, len and every slot as they were.   *)
C5_FullPush ==
    /\ (\A i \in Calls : IsPush(i)) /\ Cardinality(OkPushes(Calls)) = CAPACITY
          => is_full
    /\ \A i \in Calls :
          IsPush(i) /\ StateAfter(i - 1).len = CAPACITY
              => log[i].res = Err(log[i].arg) /\ Untouched(i)

(* Capacity 2 filled from both ends, then one rejected push at each end. *)
C5_Witness ==
    /\ CAPACITY = 2 /\ Len(log) = 4
    /\ log[1].op = "push_front" /\ log[1].res = Ok
    /\ log[2].op = "push_back" /\ log[2].res = Ok
    /\ log[3].op = "push_front" /\ log[3].res = Err(3)
    /\ log[4].op = "push_back" /\ log[4].res = Err(4)
    /\ is_full

(* ------------------------------------------------------------------ *)
(* C6  The empty deque                                                 *)
(* ------------------------------------------------------------------ *)
(* C6: in the state new() produces and in the state clear() produces,  *)
(* is_empty holds and get(0), pop_front and pop_back return None; and  *)
(* a pop_front or pop_back made when len = 0 returns None and leaves   *)
(* start, end, len and the storage as they were.                       *)
C6_Empty ==
    /\ (log = <<>> \/ log[Len(log)].op = "clear")
          => is_empty /\ get(0) = {None}
    /\ \A i \in Calls :
          IsPop(i) /\ (i = 1 \/ log[i - 1].op = "clear")
              => log[i].res = None
    /\ \A i \in Calls :
          IsPop(i) /\ StateAfter(i - 1).len = 0
              => log[i].res = None /\ Untouched(i)

(* clear() of a deque holding two elements, then both pops and get(0). *)
C6_Witness ==
    /\ Len(log) = 5
    /\ log[3].op = "clear" /\ StateAfter(2).len = 2
    /\ log[4].op = "pop_front" /\ log[5].op = "pop_back"
    /\ ret = [op |-> "get", arg |-> 0, res |-> None]

(* ------------------------------------------------------------------ *)
(* C7  Range of len                                                    *)
(* ------------------------------------------------------------------ *)
(* C7: in every reachable state 0 <= len <= CAPACITY: no pop takes len *)
(* below 0 (which in usize is a wrap to the top of the range) and no   *)
(* push takes it above CAPACITY.                                       *)
C7_LenRange == 0 <= len /\ len <= CAPACITY

(* Capacity 1: a push, a rejected push, a pop and a pop of nothing. *)
C7_Witness ==
    /\ CAPACITY = 1 /\ Len(log) = 4
    /\ IsPush(1) /\ log[1].res = Ok
    /\ IsPush(2) /\ log[2].res.tag = "Err"
    /\ IsPop(3) /\ log[3].res.tag = "Some"
    /\ IsPop(4) /\ log[4].res = None

(* ------------------------------------------------------------------ *)
(* C8  len as a count of pushes and pops                               *)
(* ------------------------------------------------------------------ *)
(* C8 as stated: while the deque exists, len is the number of          *)
(* successful pushes minus the number of successful pops made since    *)
(* construction.                                                       *)
C8_SinceConstruction ==
    status = "alive" =>
        len = Cardinality(OkPushes(Calls)) - Cardinality(SomePops(Calls))

(* The calls made after the last clear() (or drop), all of them when   *)
(* there was none.                                                     *)
SinceClear ==
    {i \in Calls : \A j \in Calls : log[j].op \in {"clear", "drop"} => j < i}

(* C8 amended: len is the number of successful pushes minus the number *)
(* of successful pops made since construction or since the most recent *)
(* clear(), whichever is later.                                        *)
C8_SinceClear ==
    len = Cardinality(OkPushes(SinceClear)) - Cardinality(SomePops(SinceClear))

(* A clear() of a non-empty deque, then two pushes and a pop. *)
C8_Witness ==
    /\ Len(log) = 5 /\ status = "alive"
    /\ log[2].op = "clear" /\ StateAfter(1).len = 1
    /\ OkPushes(SinceClear) = {3, 4}
    /\ SomePops(SinceClear) = {5}
    /\ len = 1

(* ------------------------------------------------------------------ *)
(* C9  Destructors run by clear() and drop                             *)
(* ------------------------------------------------------------------ *)
NoDup(s) == \A a, b \in 1..Len(s) : s[a] = s[b] => a = b

Accepted == {log[i].arg : i \in OkPushes(Calls)}

Disposed == returned \o destroyed

Held == {data[i] : i \in live}

AsLastLeft ==
    LET s == StateAfter(Len(log))
    IN /\ start = s.start /\ end = s.end /\ len = s.len
       /\ data = s.data /\ live = s.live

(* C11: for i < len, deque[i] (read or written) is the element get(i)  *)
(* and get_mut(i) find, the i-th of the reference deque; for i >= len  *)
(* it panics with the out-of-bounds condition, and only then; and the  *)
(* panic leaves start, end, len and the storage unchanged.             *)
C11_Indexing ==
    /\ \A i \in 0..(CAPACITY + 1) :
          IF i < len
          THEN /\ index(i) = {Ref(r.val) : r \in get(i)}
               /\ index_mut(i) = {Ref(r.val) : r \in get_mut(i)}
               /\ index(i) = {Ref(ref[i + 1])}
               /\ index_mut(i) = {Ref(ref[i + 1])}
          ELSE /\ index(i) = {IndexOutOfBounds}
               /\ index_mut(i) = {IndexOutOfBounds}
    /\ ret.op \in {"index", "index_mut"} =>
          /\ ret.res = IndexOutOfBounds <=> ret.arg >= len
          /\ ret.res = IndexOutOfBounds <=> status = "panicked"
          /\ ret.res.tag \in {"Ref", "Panic"}
    /\ status = "panicked" => AsLastLeft

(* deque[2] = v on a wrapped deque of two elements: the fatal case. *)
C11_Witness ==
    /\ status = "panicked"
    /\ ret = [op |-> "index_mut", arg |-> 2, res |-> IndexOutOfBounds]
    /\ len = 2 /\ start > end /\ end > 0

(* ------------------------------------------------------------------ *)
(* C12  back and back_mut on an empty deque                            *)
(* ------------------------------------------------------------------ *)
BackCalled == ret.op \in {"back", "back_mut"}

(* The results of back and back_mut: None when len = 0, else the last  *)
(* element.                                                            *)
BackResults ==
    /\ len = 0 => back = {None} /\ back_mut = {None}
    /\ len > 0 => back = {Some(ref[len])} /\ back_mut = {Some(ref[len])}
    /\ BackCalled => ret.res = IF len = 0 THEN None ELSE Some(ref[len])

(* C12 as stated: back and back_mut return None when len = 0 and the   *)
(* last element otherwise, and the subtraction len - 1 they perform    *)
(* never goes below zero: the offset they look up is len - 1, and on   *)
(* an empty deque none is looked up.                                   *)
C12_NoUnderflow ==
    /\ BackResults
    /\ BackCalled => len > 0 /\ ret.arg = len - 1

(* C12 amended: back and back_mut return None when len = 0 and the     *)
(* last element otherwise; they always evaluate len.wrapping_sub(1),   *)
(* which on an empty deque wraps to the largest usize, an offset that  *)
(* is >= len and so is looked up as absent.                            *)
C12_BackWraps ==
    /\ BackResults
    /\ BackCalled =>
          /\ ret.arg = (IF len = 0 THEN UsizeModulus - 1 ELSE len - 1)
          /\ len = 0 => ret.arg >= len /\ data_index(ret.arg) = None

(* back_mut on a deque emptied by pops, its start no longer 0. *)
C12_Witness ==
    /\ ret = [op |-> "back_mut", arg |-> UsizeModulus - 1, res |-> None]
    /\ len = 0 /\ start > 0 /\ CAPACITY > 1
    /\ status = "alive"

(* ------------------------------------------------------------------ *)
(* C13  Capacity zero                                                  *)
(* ------------------------------------------------------------------ *)
(* C13: a deque of capacity 0 is always empty and full with            *)
(* start = end = len = 0; every push returns Err with its value, every *)
(* pop, get, front and back returns None, clear and drop destroy       *)
(* nothing, and no call panics on a remainder by zero or on indexing   *)
(* the empty array.                                                    *)
C13_CapacityZero ==
    CAPACITY = 0 =>
        /\ is_empty /\ is_full
        /\ start = 0 /\ end = 0 /\ len = 0 /\ live = {}
        /\ \A i \in 0..(MaxCapacity + 1) : get(i) = {None}
        /\ front = {None} /\ back = {None}
        /\ ret.res # Panicked
        /\ \A i \in Calls :
              /\ log[i].res # Panicked
              /\ IsPush(i) => log[i].res = Err(log[i].arg)
              /\ IsPop(i) => log[i].res = None
              /\ log[i].op \in {"clear", "drop"} =>
                    log[i].res = Unit /\ log[i].drops = <<>>
              /\ Untouched(i)

(* Every mutating call made once on a deque of capacity 0, then back. *)
C13_Witness ==
    /\ CAPACITY = 0 /\ Len(log) = 5
    /\ log[1].op = "push_front" /\ log[2].op = "push_back"
    /\ log[3].op = "pop_front" /\ log[4].op = "pop_back"
    /\ log[5].op = "clear"
    /\ ret.op = "back" /\ ret.res = None

(* ------------------------------------------------------------------ *)
(* C14  Which slots are initialized                                    *)
(* ------------------------------------------------------------------ *)
(* The slots from a up to but not including b, going round the array. *)
WrappedRange(a, b) ==
    IF a < b THEN a..(b - 1) ELSE (a..(CAPACITY - 1)) \cup (0..(b - 1))

(* The slots that start, end and len say are initialized. *)
ImpliedLive ==
    IF len = 0 THEN {}
    ELSE IF len = CAPACITY THEN Slots
    ELSE WrappedRange(start, end)

C15_Bookkeeping ==
    CAPACITY >= 1 =>
        /\ start \in Slots /\ end \in Slots
        /\ len % CAPACITY = (end - start) % CAPACITY
        /\ start < end => len = end - start
        /\ start > end => len = CAPACITY + end - start
        /\ start = end => len \in {0, CAPACITY}

(* Both start = end states: the deque is full with start = end > 0     *)
(* now, and was empty with that same start = end earlier.              *)
C15_Witness ==
    /\ CAPACITY >= 2 /\ len = CAPACITY /\ start = end /\ start > 0
    /\ \E i \in Calls :
          /\ StateAfter(i).len = 0
          /\ StateAfter(i).start = start /\ StateAfter(i).end = start
    /\ \E i \in Calls : StateAfter(i).start < StateAfter(i).end
    /\ \E i \in Calls : StateAfter(i).start > StateAfter(i).end

(* ------------------------------------------------------------------ *)
(* C16  data_index                                                     *)
(* ------------------------------------------------------------------ *)
Usize == 0..(UsizeModulus - 1)

(* The offsets tried: every one up to past the capacity, and the       *)
(* largest usize.                                                      *)
Offsets == 0..(CAPACITY + 1) \cup {UsizeModulus - 1}

(* C16: data_index(offset) is None exactly when offset >= len, and     *)
(* for offset < len it is (start + offset) mod CAPACITY, an            *)
(* initialized slot; CAPACITY - start does not go below zero, and of   *)
(* start + offset and offset - pre_wrap_size the one that is formed    *)
(* is an index of the array, so nothing wraps.                         *)
C16_DataIndex ==
    LET pre_wrap_size == CAPACITY - start
    IN /\ pre_wrap_size \in Usize
       /\ \A offset \in Offsets :
             IF offset >= len
             THEN data_index(offset) = None
             ELSE /\ data_index(offset) = Some((start + offset) % CAPACITY)
                  /\ data_index(offset).val \in live
                  /\ IF offset < pre_wrap_size
                     THEN start + offset \in Slots
                     ELSE offset - pre_wrap_size \in Slots

(* get(2) on a full deque of capacity 3 whose region starts at slot 2: *)
(* offset 0 is before the wrap, offsets 1 and 2 after it.              *)
C16_Witness ==
    /\ CAPACITY = 3 /\ start = 2 /\ len = 3
    /\ data_index(0) = Some(2)
    /\ data_index(2) = Some(1)
    /\ ret.op = "get" /\ ret.arg = 2 /\ ret.res.tag = "Some"

(* ------------------------------------------------------------------ *)
(* C17  What a successful push writes                                  *)
(* ------------------------------------------------------------------ *)
(* The slot the successful push i is to write. *)
PushSlot(i) ==
    LET pre == StateAfter(i - 1)
    IN IF log[i].op = "push_front"
       THEN (pre.start + CAPACITY - 1) % CAPACITY
       ELSE pre.end

(* C17: a successful push_front writes slot (start + N - 1) mod N and  *)
(* a successful push_back writes slot end, and nothing else: that slot *)
(* was not initialized before, it holds the pushed value after, and    *)
(* every other slot keeps its content and its liveness.                *)
C17_PushFrame ==
    \A i \in Calls :
        IsPush(i) /\ log[i].res = Ok =>
            LET pre == StateAfter(i - 1)
                post == StateAfter(i)
                w == PushSlot(i)
            IN /\ w \in Slots
               /\ w \notin pre.live
               /\ post.live = pre.live \cup {w}
               /\ post.data[w] = log[i].arg
               /\ \A k \in Slots \ {w} : post.data[k] = pre.data[k]

(* A push_front that wraps from slot 0 to slot 2 in front of an        *)
(* element, and a push_back into a slot a pop has moved out of.        *)
C17_Witness ==
    /\ CAPACITY = 3
    /\ \E i \in Calls :
          /\ log[i].op = "push_front" /\ log[i].res = Ok
          /\ StateAfter(i - 1).start = 0 /\ StateAfter(i - 1).len > 0
          /\ PushSlot(i) = 2
    /\ \E i \in Calls :
          /\ log[i].op = "push_back" /\ log[i].res = Ok
          /\ StateAfter(i - 1).data[PushSlot(i)] # Uninit

(* ------------------------------------------------------------------ *)
(* C20  The index enumeration of clear()                               *)
(* ------------------------------------------------------------------ *)
(* C20: indexes() yields len indexes, all distinct, the k-th being     *)
(* data_index(k - 1): start .. end - 1 when start < end, start .. N-1  *)
(* then 0 .. end - 1 otherwise, nothing when len = 0; so clear() and   *)
(* drop destroy the elements in front-to-back order.                   *)
C20_Indexes ==
    /\ Len(indexes) = len
    /\ NoDup(indexes)
    /\ \A k \in 1..len : data_index(k - 1) = Some(indexes[k])
    /\ indexes = IF len = 0 THEN <<>>
                 ELSE IF start < end THEN SeqRange(start, end)
                 ELSE SeqRange(start, CAPACITY) \o SeqRange(0, end)
    /\ \A i \in Calls :
          log[i].op \in {"clear", "drop"} =>
              log[i].drops = StateAfter(i - 1).ref

(* clear() of a full deque of capacity 3 whose region starts at slot   *)
(* 2: slots 2, 0, 1 are dropped in that order, front to back.          *)
C20_Witness ==
    \E i \in Calls :
        /\ log[i].op = "clear"
        /\ log[i].idxs = <<2, 0, 1>>
        /\ log[i].drops = <<2, 1, 3>>
        /\ StateAfter(i - 1).ref = <<2, 1, 3>>


(* ------------------------------------------------------------------ *)
(* C18.  clear() taken step by step resets start = end = len = 0       *)
(* before the first destructor runs: in every state in which a         *)
(* destructor of the cleared set is about to run or has run, whether   *)
(* the loop goes on or a destructor has panicked, len is 0, get, front *)
(* and back report absence, pop_front and pop_back would return None   *)
(* without touching a slot, no offset is mapped to a slot, and a       *)
(* further clear() or drop would destroy nothing.                      *)
(* ------------------------------------------------------------------ *)
Destroying ==
    /\ IsClearing
    /\ pc.vals # <<>> \/ Stepping("drop")

Abandoned ==
    /\ log # <<>>
    /\ log[Len(log)].op \in {"clear", "drop"}
    /\ log[Len(log)].res = Panicked

C18_ClearOrdering ==
    (Destroying \/ Abandoned) =>
        /\ start = 0 /\ end = 0 /\ len = 0
        /\ is_empty
        /\ \A i \in 0..CAPACITY : data_index(i) = None /\ get(i) = {None}
        /\ front = {None}
        /\ back = {None}
        /\ indexes = <<>>

(* In the middle of clearing a wrapped region of three: the front      *)
(* value destroyed, two still to be destroyed.                         *)
C18_Witness ==
    /\ pc.op = "clear"
    /\ pc.all = <<2, 0, 1>>
    /\ pc.idxs = <<0, 1>>
    /\ Len(pc.vals) = 1
    /\ live = {0, 1}
    /\ len = 0

(* ------------------------------------------------------------------ *)
(* C19.  With every push and pop taken as a slot access and a          *)
(* bookkeeping update, in every state, the intermediate ones included, *)
(* every slot of the region implied by (start, end, len) is            *)
(* initialized: a push has written its slot, which is not yet in the   *)
(* region, when it extends the region, and a pop has shrunk the        *)
(* region, so that its slot is no longer in it but still initialized,  *)
(* when it moves the value out.                                        *)
(* ------------------------------------------------------------------ *)
C19_StepOrdering ==
    /\ ImpliedLive \subseteq live
    /\ \A i \in 0..CAPACITY :
          data_index(i) # None => data_index(i).val \in live
    /\ (IsPushing /\ Stepping("extend")) =>
          LET idx == IF pc.op = "push_front" THEN pc.idxs[1] ELSE end
          IN /\ idx \in live \ ImpliedLive
             /\ data[idx] = pc.arg
             /\ live = ImpliedLive \cup {idx}
    /\ (IsPopping /\ Stepping("read")) =>
          LET idx == IF pc.op = "pop_front" THEN pc.idxs[1] ELSE end
          IN /\ idx \in live \ ImpliedLive
             /\ live = ImpliedLive \cup {idx}

(* pop_front of a wrapped region has shrunk it and is about to move    *)
(* the value out of the last slot of the array.                        *)
C19_Witness ==
    /\ pc.op = "pop_front"
    /\ Stepping("read")
    /\ pc.idxs = <<2>>
    /\ start = 0 /\ end = 1 /\ len = 1
    /\ live = {0, 2}

====
